---- MODULE Spec2Model ----
(***************************************************************************)
(* Plate-boundary pipeline and colour mapping of the globe explorer.       *)
(*                                                                         *)
(*   getEarthquakeColorByTime, normalizeLongitude,                         *)
(*   processPlatesData                       src/utils/globe.ts            *)
(*   useData.loadData                        src/unnamed/part_001          *)
(*                                                                         *)
(* The components share the module, one specification each: Spec (the      *)
(* plate pipeline), SpecMalformed (loadData on any answer), SpecNorm       *)
(* (normalizeLongitude, loop by loop), SpecColor                           *)
(* (getEarthquakeColorByTime), SpecDetails (the summary of DetailsPanel),  *)
(* SpecQuakes (earthquake updates), SpecEnrich (enrichVolcanoData) and     *)
(* SpecVolcano (volcano updates).  Each leaves the others' variables idle. *)
(*                                                                         *)
(* JavaScript arrays are objects with identity, so the model keeps a heap  *)
(* of coordinate arrays (arrays) and features refer to them by reference.  *)
(* A point is the pair <<p[1], p[2]>> = JS [p[0], p[1]].                   *)
(***************************************************************************)
EXTENDS Integers, Sequences, FiniteSets, TLC

VARIABLES
    caller,          \* who called processPlatesData: "direct" or "loadData"
    pc,              \* position in loadData / processPlatesData
    platesJson,      \* loadData: platesJson.features (raw features)
    arrays,          \* heap of coordinate arrays: reference -> sequence of points
    features,        \* processPlatesData: its argument
    fi,              \* processPlatesData: position of the outer forEach (1-based)
    coordinates,     \* processPlatesData: reference held by const coordinates
    index,           \* processPlatesData: index of the inner forEach (0-based)
    currentSegment,  \* processPlatesData: reference held by let currentSegment
    finalFeatures,   \* processPlatesData: the result list
    platesData,      \* useData: the platesData state
    error,           \* useData: the error state
    isLoading,       \* useData: the isLoading state
    argLon,          \* normalizeLongitude: its argument lon
    curLon,          \* normalizeLongitude: let newLon
    npc,             \* normalizeLongitude: position
    history,         \* normalizeLongitude: <<argument, result>> of the calls returned
    time,            \* getEarthquakeColorByTime: its argument time
    startDate,       \* getEarthquakeColorByTime: its argument startDate
    endDate,         \* getEarthquakeColorByTime: its argument endDate
    color,           \* getEarthquakeColorByTime: the string returned
    cpc,             \* getEarthquakeColorByTime: position
    selectedItem,        \* App: the selectedItem state, the prop of DetailsPanel
    earthquakeSummary,   \* DetailsPanel: the earthquakeSummary state
    isLoadingSummary,    \* DetailsPanel: the isLoadingSummary state
    prevEarthquakeId,    \* DetailsPanel: prevEarthquakeId.current
    summaryRequests,     \* generateEarthquakeSummary calls not yet settled, per earthquake
    filters,             \* useData: the filters state
    viewMode,            \* useData: the viewMode state
    earthquakes,         \* useData: the earthquakes state
    earthquakeCache,     \* localStorage earthquakeDataCache: its earthquakes
    updateRequests,      \* updateEarthquakes calls not yet settled, per filters
    rawVolcanoes,        \* enrichVolcanoData: its argument
    apiKey,              \* geminiService: API_KEY is set
    batchStart,          \* enrichVolcanoData: the loop variable i
    allEnrichedVolcanoes,\* enrichVolcanoData: the result list
    epc,                 \* enrichVolcanoData: position
    volcanoes,           \* useData: the volcanoes state
    isUpdatingVolcanoes, \* useData: the isUpdatingVolcanoes state
    volcanoesLastUpdated,\* useData: the volcanoesLastUpdated state
    volcanoCache,        \* localStorage volcanoDataCache, or the absence of one
    usgsVolcanoes,       \* updateVolcanoes: the records the USGS API answers with
    updateResult,        \* updateVolcanoes: what it returned
    now,                 \* Date.now()
    upc                  \* handleUpdateVolcanoes / updateVolcanoes: position

detailsVars == <<selectedItem, earthquakeSummary, isLoadingSummary, prevEarthquakeId,
                 summaryRequests>>

quakeVars == <<filters, viewMode, earthquakes, earthquakeCache, updateRequests>>

enrichVars == <<rawVolcanoes, apiKey, batchStart, allEnrichedVolcanoes, epc>>

volcanoVars == <<volcanoes, isUpdatingVolcanoes, volcanoesLastUpdated, volcanoCache,
                 usgsVolcanoes, updateResult, now, upc>>

\* the state of the panels, the hook's other handlers and the services
hookVars == <<detailsVars, quakeVars, enrichVars, volcanoVars>>

loadVars == <<caller, pc, platesJson, arrays, features, fi, coordinates, index,
              currentSegment, finalFeatures, platesData, error, isLoading>>

\* what a step of normalizeLongitude or getEarthquakeColorByTime never writes
pipeVars == <<loadVars, hookVars>>

normVars == <<argLon, curLon, npc, history>>

colorVars == <<time, startDate, endDate, color, cpc>>

vars == <<pipeVars, normVars, colorVars>>

\* what a step of processPlatesData or of the map in loadData never writes
untouched == <<error, isLoading, normVars, colorVars, hookVars>>

segLocals == <<fi, coordinates, index, currentSegment, finalFeatures>>

----------------------------------------------------------------------------
(* Bounds of the model and the input sets.                                 *)

MaxFeatures == 2      \* features in one input list
MaxPoints == 4        \* points of one input list, all features together
MaxRawPoints == 3     \* the same for a list loaded by loadData
MaxBadPoints == 3     \* the same for a list that may hold a malformed feature
MaxLon == 900         \* normalizeLongitude is first called on -MaxLon..MaxLon
MaxCalls == 2         \* calls of normalizeLongitude in a row
MaxQuakeItems == 2    \* earthquakes that can be selected
MaxPending == 3       \* summary requests in flight at once
MaxInFlight == 2      \* updateEarthquakes requests in flight at once
MaxRaw == 101         \* raw volcanoes handed to enrichVolcanoData: three batches
MaxUsgs == 52         \* records in the answer of the USGS volcano API
MaxCurrent == 2       \* volcanoes in the list before an update
MaxClock == 2         \* Date.now() while an update can still start

\* longitudes for a direct call: 1 - (-179) = 180 exactly,
\* 2 - (-179) = 181, 179 - (-179) = 358, every other pair is under 180
Lons == {-179, 1, 2, 179}
\* raw plate-boundary longitudes: 190 is 170 degrees west written past +180
RawLons == {-170, 170, 190}
\* latitudes; the walk never reads them as such
Lats == {0}

Abs(x) == IF x < 0 THEN -x ELSE x

RECURSIVE SumTo(_, _)
SumTo(f, n) == IF n = 0 THEN 0 ELSE f[n] + SumTo(f, n - 1)

\* the lists of n coordinate arrays that cut the flat point list into
\* consecutive pieces of the given lengths
CutAt(flat, lens, n) ==
    [k \in 1..n |-> SubSeq(flat, SumTo(lens, k - 1) + 1, SumTo(lens, k))]

InputArrays(points, maxPoints) ==
    UNION { UNION { { CutAt(flat, lens, n) :
                        flat \in [1..t -> points],
                        lens \in {l \in [1..n -> 0..t] : SumTo(l, n) = t} }
                    : t \in 0..maxPoints }
            : n \in 0..MaxFeatures }

----------------------------------------------------------------------------
(* Features.  properties stands for every top-level field but geometry,    *)
(* geometry.type for every geometry field but coordinates.                 *)

Feature(name, ref) ==
    [type |-> "Feature", properties |-> name,
     geometry |-> [type |-> "LineString", coordinates |-> ref]]

\* input feature k owns array k and is named k
InputFeatures(n) == [k \in 1..n |-> Feature(k, k)]

Coords(f) == arrays[f.geometry.coordinates]

\* a point that is null instead of a coordinate pair
NullPoint == <<>>

\* the reference of a feature whose geometry or coordinates are missing
Undefined == 0

\* const [lon1] = p and coords[0] need p to be an array
Destructurable(p) == p # NullPoint

\* input feature k owns array k, but feature missing (if any) has no coordinates
FeaturesMissing(n, missing) ==
    [k \in 1..n |-> Feature(k, IF k = missing THEN Undefined ELSE k)]

\* every way to leave a list of coordinate arrays whole or to put one defect
\* into it: <<arrays, feature without coordinates or 0>>
WithOneDefect(arrs) ==
    {<<arrs, 0>>}
        \cup {<<arrs, k>> : k \in 1..Len(arrs)}
        \cup UNION { {<<[arrs EXCEPT ![k][j] = NullPoint], 0>> : j \in 1..Len(arrs[k])}
                     : k \in 1..Len(arrs) }

----------------------------------------------------------------------------
(* normalizeLongitude, src/utils/globe.ts:16-21: two while loops.          *)

RECURSIVE AddWhileLow(_)
AddWhileLow(newLon) == IF newLon <= -180 THEN AddWhileLow(newLon + 360) ELSE newLon

RECURSIVE SubWhileHigh(_)
SubWhileHigh(newLon) == IF newLon > 180 THEN SubWhileHigh(newLon - 360) ELSE newLon

normalizeLongitude(lon) == SubWhileHigh(AddWhileLow(lon))

----------------------------------------------------------------------------
(* Volcano records and the two local stores of dataService,                *)
(* src/components/DetailsPanel.tsx:203-270.  A name is a word and whether  *)
(* it is written with capitals; lat and lng stand with the word.           *)

VolcanoName(base, upper) == [base |-> base, upper |-> upper]

\* String.prototype.toLowerCase
ToLowerCase(name) == [name EXCEPT !.upper = FALSE]

\* the members of the enum VolcanoStatus, src/types.ts
VolcanoStatus ==
    {"Active", "Inactive", "Potentially Active", "Extinct", "Holocene", "Unknown", "Dormant"}

RawVolcano(name, lat, lng) == [name |-> name, lat |-> lat, lng |-> lng]

\* { ...raw, id, elevation, type, status, information }
VolcanoFrom(raw, id, elevation, type, status, information) ==
    [name |-> raw.name, lat |-> raw.lat, lng |-> raw.lng, id |-> id,
     elevation |-> elevation, type |-> type, status |-> status,
     information |-> information]

\* volcanoData, the list shipped with the application
StaticVolcanoes ==
    << VolcanoFrom(RawVolcano(VolcanoName(1, TRUE), 1, -1), <<"static", 1>>, 1000,
                   "Stratovolcano", "Active", "curated") >>

\* localStorage without a volcanoDataCache item, and with one
NoCache == [present |-> FALSE, volcanoes |-> <<>>, timestamp |-> 0]
CacheOf(list, timestamp) == [present |-> TRUE, volcanoes |-> list, timestamp |-> timestamp]

\* getVolcanoes: the cached item, or a new cache of the static list
GetVolcanoes(cache, clock) == IF cache.present THEN cache ELSE CacheOf(StaticVolcanoes, clock)

\* no call of updateVolcanoes has returned
NoUpdateResult == [updatedVolcanoes |-> <<>>, newVolcanoes |-> <<>>]

----------------------------------------------------------------------------
(* The earthquake service: fetchEarthquakesFromApi,                        *)
(* src/components/DetailsPanel.tsx:217-239, and the Filters it is asked    *)
(* with, src/unnamed/part_001:20-27.                                       *)

\* the earthquakes the USGS service knows: id, magnitude, day of the event
Catalogue ==
    { [id |-> 1, mag |-> 3, time |-> 1],
      [id |-> 2, mag |-> 5, time |-> 2],
      [id |-> 3, mag |-> 6, time |-> 1] }

\* the values the filter inputs are moved between
MinMags == {3, 5}
FilterDays == {1, 2}

FiltersOf(start, end, min) ==
    [dateRange |-> [start |-> start, end |-> end], magRange |-> [min |-> min]]

AllFilters == {FiltersOf(a, b, m) : a \in FilterDays, b \in FilterDays, m \in MinMags}

\* the initial filters state: the widest window, the lowest magnitude
InitialFilters == FiltersOf(1, 2, 3)

\* .sort((a, b) => b.mag - a.mag) of a set of earthquakes of distinct magnitudes
RECURSIVE SortByMagDesc(_)
SortByMagDesc(quakes) ==
    IF quakes = {} THEN <<>>
    ELSE LET top == CHOOSE q \in quakes : \A r \in quakes : r.mag <= q.mag
         IN  <<top>> \o SortByMagDesc(quakes \ {top})

\* fetchEarthquakesFromApi: the events of the window at or above the minimum
\* magnitude, strongest first
FetchEarthquakes(f) ==
    SortByMagDesc({q \in Catalogue :
                      /\ f.dateRange.start <= q.time
                      /\ q.time <= f.dateRange.end
                      /\ q.mag >= f.magRange.min})

----------------------------------------------------------------------------
(* loadData, src/unnamed/part_001:32-62.                                   *)

\* the inner map callback: coords = [longitude, latitude] -> [lat, lon]
NormalizePoint(coords) ==
    LET lon == normalizeLongitude(coords[1])
        lat == coords[2]
    IN  <<lat, lon>>

NormalizedCoordinates(a) == [i \in 1..Len(a) |-> NormalizePoint(a[i])]

\* feature.geometry.coordinates.map(coords => ... coords[0] ...) does not throw
MapsCleanly(feature) ==
    /\ feature.geometry.coordinates # Undefined
    /\ \A i \in 1..Len(Coords(feature)) : Destructurable(Coords(feature)[i])

\* the map throws a TypeError on a malformed raw feature
ThrowMap ==
    /\ pc = "normalize"
    /\ \E k \in 1..Len(platesJson) : ~MapsCleanly(platesJson[k])
    /\ pc' = "catch"
    /\ UNCHANGED <<untouched, caller, platesJson, arrays, features, segLocals, platesData>>

\* error === null
NoError == "null"

\* the message property of what a failing step throws: a TypeError of the
\* map or of fetch, the Error of line 41 with an empty statusText, or a
\* rejection without a message
ThrownMessages ==
    {"Cannot read properties of undefined", "Failed to fetch",
     "Failed to fetch tectonic plates: ", ""}

\* fault variant: setError(err.message)
MessageUnguarded(message) == message

\* err.message || 'An unknown error occurred.'
MessageOrDefault(message) ==
    IF message # "" THEN message ELSE "An unknown error occurred."

\* await dataService.getInitialData(...) rejects: getVolcanoes has run, the
\* earthquake request failed
GetInitialDataFails ==
    /\ pc = "getInitialData"
    /\ volcanoCache' = GetVolcanoes(volcanoCache, now)
    /\ now' = now + 1
    /\ pc' = "catch"
    /\ UNCHANGED <<caller, platesJson, arrays, features, segLocals, platesData, error,
                   isLoading, normVars, colorVars, detailsVars, quakeVars, enrichVars,
                   volcanoes, isUpdatingVolcanoes, volcanoesLastUpdated, usgsVolcanoes,
                   updateResult, upc>>

\* getInitialData resolves: getEarthquakes has fetched and cached the default
\* window; setEarthquakes, setVolcanoes, setVolcanoesLastUpdated
GetInitialData ==
    /\ pc = "getInitialData"
    /\ earthquakeCache' = FetchEarthquakes(InitialFilters)
    /\ earthquakes' = FetchEarthquakes(InitialFilters)
    /\ volcanoCache' = GetVolcanoes(volcanoCache, now)
    /\ volcanoes' = GetVolcanoes(volcanoCache, now).volcanoes
    /\ volcanoesLastUpdated' = GetVolcanoes(volcanoCache, now).timestamp
    /\ now' = now + 1
    /\ pc' = "fetchPlates"
    /\ UNCHANGED <<caller, platesJson, arrays, features, segLocals, platesData, error,
                   isLoading, normVars, colorVars, detailsVars, enrichVars,
                   filters, viewMode, updateRequests,
                   isUpdatingVolcanoes, usgsVolcanoes, updateResult, upc>>

\* fetch rejects, the response is not ok, or platesResponse.json() rejects
FetchPlatesFails ==
    /\ pc = "fetchPlates"
    /\ pc' = "catch"
    /\ UNCHANGED <<untouched, caller, platesJson, arrays, features, segLocals, platesData>>

\* const platesJson = await platesResponse.json()
FetchPlates ==
    /\ pc = "fetchPlates"
    /\ pc' = "normalize"
    /\ UNCHANGED <<untouched, caller, platesJson, arrays, features, segLocals, platesData>>

\* catch (err) { setError(err.message || 'An unknown error occurred.') }
CatchError ==
    /\ pc = "catch"
    /\ \E message \in ThrownMessages : error' = MessageOrDefault(message)
    /\ pc' = "finally"
    /\ UNCHANGED <<caller, platesJson, arrays, features, segLocals, platesData, isLoading,
                   normVars, colorVars, hookVars>>

\* platesJson.features.map(...): one new feature, geometry and coordinates
\* array per raw feature; the raw objects are left as they are
MapNormalize ==
    /\ pc = "normalize"
    /\ \A k \in 1..Len(platesJson) : MapsCleanly(platesJson[k])
    /\ LET n == Len(platesJson)
           base == Len(arrays)
       IN  /\ arrays' = arrays \o [k \in 1..n |-> NormalizedCoordinates(Coords(platesJson[k]))]
           /\ features' = [k \in 1..n |->
                             [platesJson[k] EXCEPT !.geometry.coordinates = base + k]]
    /\ fi' = 1
    /\ finalFeatures' = <<>>
    /\ pc' = "forEachFeature"
    /\ UNCHANGED <<untouched, caller, platesJson, coordinates, index, currentSegment, platesData>>

\* setPlatesData(finalPlatesData)
SetPlatesData ==
    /\ pc = "setPlatesData"
    /\ platesData' = finalFeatures
    /\ pc' = "finally"
    /\ UNCHANGED <<untouched, caller, platesJson, arrays, features, segLocals>>

\* fault variant: setIsLoading(false) as the last statement of the try block
FinallyInTry ==
    /\ pc = "finally"
    /\ isLoading' = (isLoading /\ error # NoError)
    /\ pc' = "done"
    /\ UNCHANGED <<caller, platesJson, arrays, features, segLocals, platesData, error,
                   normVars, colorVars, hookVars>>

\* finally { setIsLoading(false) }
Finally ==
    /\ pc = "finally"
    /\ isLoading' = FALSE
    /\ pc' = "done"
    /\ UNCHANGED <<caller, platesJson, arrays, features, segLocals, platesData, error,
                   normVars, colorVars, hookVars>>

----------------------------------------------------------------------------
(* processPlatesData, src/utils/globe.ts:23-51.                            *)

\* fault variant: the test without Math.abs
IsCrossingSigned(prevPoint, point) == prevPoint[1] - point[1] > 180

\* fault variant: the test with >= in place of >
IsCrossingInclusive(prevPoint, point) == Abs(prevPoint[1] - point[1]) >= 180

\* const [lon1] = prevPoint; const [lon2] = point; Math.abs(lon1 - lon2) > 180
IsCrossing(prevPoint, point) ==
    LET lon1 == prevPoint[1]
        lon2 == point[1]
    IN  Abs(lon1 - lon2) > 180

\* fault variant: currentSegment.length > 0
ShouldEmitNonEmpty(segment) == Len(segment) > 0

\* currentSegment.length > 1
ShouldEmit(segment) == Len(segment) > 1

\* fault variant: { ...feature, geometry: { coordinates: currentSegment } },
\* losing the other geometry fields
SegmentFeatureBareGeometry(feature, ref) ==
    [feature EXCEPT !.geometry = [type |-> "undefined", coordinates |-> ref]]

\* { ...feature, geometry: { ...feature.geometry, coordinates: currentSegment } }
SegmentFeature(feature, ref) == [feature EXCEPT !.geometry.coordinates = ref]

\* fault variant: finalFeatures.unshift in place of push
EmittedFirst(final, feature, ref, heap) ==
    IF ShouldEmit(heap[ref]) THEN <<SegmentFeature(feature, ref)>> \o final ELSE final

\* the push onto finalFeatures guarded by the length test
Emitted(final, feature, ref, heap) ==
    IF ShouldEmit(heap[ref]) THEN Append(final, SegmentFeature(feature, ref)) ELSE final

\* fault variant: coordinates[0], the first point of the feature
PrevPointFirst(coords, i) == coords[1]

\* coordinates[index - 1], index 0-based
PrevPoint(coords, i) == coords[i]

\* the point the callback is called with, index 0-based
PointAt(coords, i) == coords[i + 1]

\* fault variant: currentSegment = [] at a crossing, losing the point
RestartEmpty(point) == <<>>

\* the array literal [point] assigned to currentSegment at a crossing
RestartSegment(point) == <<point>>

\* fault variant: let currentSegment = feature.geometry.coordinates, walking the
\* input array while pushing onto it
ForEachFeatureAliased ==
    /\ pc = "forEachFeature"
    /\ fi <= Len(features)
    /\ features[fi].geometry.coordinates # Undefined
    /\ currentSegment' = features[fi].geometry.coordinates
    /\ coordinates' = features[fi].geometry.coordinates
    /\ index' = 0
    /\ pc' = "forEachPoint"
    /\ UNCHANGED <<untouched, caller, platesJson, arrays, features, fi, finalFeatures, platesData>>

\* features.forEach callback entered for feature fi:
\* let currentSegment = []; const coordinates = feature.geometry.coordinates
ForEachFeature ==
    /\ pc = "forEachFeature"
    /\ fi <= Len(features)
    /\ features[fi].geometry.coordinates # Undefined
    /\ arrays' = Append(arrays, <<>>)
    /\ currentSegment' = Len(arrays) + 1
    /\ coordinates' = features[fi].geometry.coordinates
    /\ index' = 0
    /\ pc' = "forEachPoint"
    /\ UNCHANGED <<untouched, caller, platesJson, features, fi, finalFeatures, platesData>>

\* fault variant: index === 0 returns without pushing the first point
PointFirstSkipsPush ==
    /\ pc = "forEachPoint"
    /\ index < Len(arrays[coordinates])
    /\ index = 0
    /\ index' = index + 1
    /\ UNCHANGED <<untouched, caller, pc, platesJson, arrays, features, fi, coordinates,
                   currentSegment, finalFeatures, platesData>>

\* index === 0: currentSegment.push(point); return
PointFirst ==
    /\ pc = "forEachPoint"
    /\ index < Len(arrays[coordinates])
    /\ index = 0
    /\ arrays' = [arrays EXCEPT ![currentSegment] = Append(@, PointAt(arrays[coordinates], index))]
    /\ index' = index + 1
    /\ UNCHANGED <<untouched, caller, pc, platesJson, features, fi, coordinates, currentSegment,
                   finalFeatures, platesData>>

\* fault variant: the crossing branch pushes onto the old segment and starts no new one
PointCrossingNoRestart ==
    /\ pc = "forEachPoint"
    /\ index < Len(arrays[coordinates])
    /\ index # 0
    /\ LET point == PointAt(arrays[coordinates], index)
           prevPoint == PrevPoint(arrays[coordinates], index)
       IN  /\ Destructurable(prevPoint) /\ Destructurable(point)
           /\ IsCrossing(prevPoint, point)
           /\ finalFeatures' = Emitted(finalFeatures, features[fi], currentSegment, arrays)
           /\ arrays' = [arrays EXCEPT ![currentSegment] = Append(@, point)]
    /\ index' = index + 1
    /\ UNCHANGED <<untouched, caller, pc, platesJson, features, fi, coordinates, currentSegment,
                   platesData>>

\* the crossing branch: emit the segment if it is long enough, start a new one
PointCrossing ==
    /\ pc = "forEachPoint"
    /\ index < Len(arrays[coordinates])
    /\ index # 0
    /\ LET point == PointAt(arrays[coordinates], index)
           prevPoint == PrevPoint(arrays[coordinates], index)
       IN  /\ Destructurable(prevPoint) /\ Destructurable(point)
           /\ IsCrossing(prevPoint, point)
           /\ finalFeatures' = Emitted(finalFeatures, features[fi], currentSegment, arrays)
           /\ arrays' = Append(arrays, RestartSegment(point))
           /\ currentSegment' = Len(arrays) + 1
    /\ index' = index + 1
    /\ UNCHANGED <<untouched, caller, pc, platesJson, features, fi, coordinates, platesData>>

\* fault variant: an else branch that pushes nothing
PointAppendSkips ==
    /\ pc = "forEachPoint"
    /\ index < Len(arrays[coordinates])
    /\ index # 0
    /\ LET point == PointAt(arrays[coordinates], index)
           prevPoint == PrevPoint(arrays[coordinates], index)
       IN  /\ Destructurable(prevPoint) /\ Destructurable(point)
           /\ ~IsCrossing(prevPoint, point)
    /\ index' = index + 1
    /\ UNCHANGED <<untouched, caller, pc, platesJson, arrays, features, fi, coordinates,
                   currentSegment, finalFeatures, platesData>>

\* fault variant: currentSegment.unshift(point) in the else branch
PointAppendUnshift ==
    /\ pc = "forEachPoint"
    /\ index < Len(arrays[coordinates])
    /\ index # 0
    /\ LET point == PointAt(arrays[coordinates], index)
           prevPoint == PrevPoint(arrays[coordinates], index)
       IN  /\ Destructurable(prevPoint) /\ Destructurable(point)
           /\ ~IsCrossing(prevPoint, point)
           /\ arrays' = [arrays EXCEPT ![currentSegment] = <<point>> \o @]
    /\ index' = index + 1
    /\ UNCHANGED <<untouched, caller, pc, platesJson, features, fi, coordinates, currentSegment,
                   finalFeatures, platesData>>

\* the else branch: currentSegment.push(point)
PointAppend ==
    /\ pc = "forEachPoint"
    /\ index < Len(arrays[coordinates])
    /\ index # 0
    /\ LET point == PointAt(arrays[coordinates], index)
           prevPoint == PrevPoint(arrays[coordinates], index)
       IN  /\ Destructurable(prevPoint) /\ Destructurable(point)
           /\ ~IsCrossing(prevPoint, point)
           /\ arrays' = [arrays EXCEPT ![currentSegment] = Append(@, point)]
    /\ index' = index + 1
    /\ UNCHANGED <<untouched, caller, pc, platesJson, features, fi, coordinates, currentSegment,
                   finalFeatures, platesData>>

\* fault variant: the last segment is pushed without the length test
EndFeatureUnguarded ==
    /\ pc = "forEachPoint"
    /\ index >= Len(arrays[coordinates])
    /\ finalFeatures' = Append(finalFeatures, SegmentFeature(features[fi], currentSegment))
    /\ fi' = fi + 1
    /\ pc' = "forEachFeature"
    /\ UNCHANGED <<untouched, caller, platesJson, arrays, features, coordinates, index,
                   currentSegment, platesData>>

\* after the inner forEach: emit the last segment if it is long enough
EndFeature ==
    /\ pc = "forEachPoint"
    /\ index >= Len(arrays[coordinates])
    /\ finalFeatures' = Emitted(finalFeatures, features[fi], currentSegment, arrays)
    /\ fi' = fi + 1
    /\ pc' = "forEachFeature"
    /\ UNCHANGED <<untouched, caller, platesJson, arrays, features, coordinates, index,
                   currentSegment, platesData>>

\* where an exception thrown inside processPlatesData lands
Thrown == IF caller = "loadData" THEN "catch" ELSE "thrown"

\* feature.geometry.coordinates is missing: reading it or calling forEach on it
\* throws a TypeError
ThrowForEach ==
    /\ pc = "forEachFeature"
    /\ fi <= Len(features)
    /\ features[fi].geometry.coordinates = Undefined
    /\ pc' = Thrown
    /\ UNCHANGED <<untouched, caller, platesJson, arrays, features, segLocals, platesData>>

\* const [lon1] = prevPoint or const [lon2] = point throws a TypeError on null
ThrowPoint ==
    /\ pc = "forEachPoint"
    /\ index < Len(arrays[coordinates])
    /\ index # 0
    /\ \/ ~Destructurable(PrevPoint(arrays[coordinates], index))
       \/ ~Destructurable(PointAt(arrays[coordinates], index))
    /\ pc' = Thrown
    /\ UNCHANGED <<untouched, caller, platesJson, arrays, features, segLocals, platesData>>

\* return finalFeatures
Return ==
    /\ pc = "forEachFeature"
    /\ fi > Len(features)
    /\ pc' = IF caller = "loadData" THEN "setPlatesData" ELSE "returned"
    /\ UNCHANGED <<untouched, caller, platesJson, arrays, features, segLocals, platesData>>

----------------------------------------------------------------------------
(* The specification: processPlatesData called on any list of features     *)
(* with longitude-first points, or loadData run on any raw geometry.       *)

InitDirect ==
    /\ caller = "direct"
    /\ pc = "forEachFeature"
    /\ platesJson = <<>>
    /\ arrays \in InputArrays(Lons \X Lats, MaxPoints)
    /\ features = InputFeatures(Len(arrays))

InitLoad ==
    /\ caller = "loadData"
    /\ pc = "normalize"
    /\ arrays \in InputArrays(RawLons \X Lats, MaxRawPoints)
    /\ platesJson = InputFeatures(Len(arrays))
    /\ features = <<>>

\* the locals of processPlatesData before the call, and the useState values
InitLocals ==
    /\ fi = 1
    /\ coordinates = 0
    /\ index = 0
    /\ currentSegment = 0
    /\ finalFeatures = <<>>
    /\ platesData = <<>>
    /\ error = NoError
    /\ isLoading = TRUE

\* normalizeLongitude is not running
NormIdle ==
    /\ argLon = 0
    /\ curLon = 0
    /\ npc = "idle"
    /\ history = <<>>

\* getEarthquakeColorByTime is not running
ColorIdle ==
    /\ time = 0
    /\ startDate = 0
    /\ endDate = 0
    /\ color = ""
    /\ cpc = "idle"

\* selectedItem values: null, a volcano, or the earthquake with that id
NullItem == 0
VolcanoItem == -1
QuakeItems == 1..MaxQuakeItems

\* DetailsPanel as mounted, nothing selected
DetailsIdle ==
    /\ selectedItem = NullItem
    /\ earthquakeSummary = ""
    /\ isLoadingSummary = FALSE
    /\ prevEarthquakeId = NullItem
    /\ summaryRequests = [q \in QuakeItems |-> 0]

\* no earthquake update has been asked for
QuakesIdle ==
    /\ filters = <<>>
    /\ viewMode = "earthquakes"
    /\ earthquakes = <<>>
    /\ earthquakeCache = <<>>
    /\ updateRequests = <<>>

\* enrichVolcanoData is not running
EnrichIdle ==
    /\ rawVolcanoes = <<>>
    /\ apiKey = FALSE
    /\ batchStart = 0
    /\ allEnrichedVolcanoes = <<>>
    /\ epc = "idle"

\* handleUpdateVolcanoes is not running
VolcanoIdle ==
    /\ volcanoes = <<>>
    /\ isUpdatingVolcanoes = FALSE
    /\ volcanoesLastUpdated = 0
    /\ volcanoCache = NoCache
    /\ usgsVolcanoes = <<>>
    /\ updateResult = NoUpdateResult
    /\ now = 0
    /\ upc = "idle"

HooksIdle ==
    /\ DetailsIdle
    /\ QuakesIdle
    /\ EnrichIdle
    /\ VolcanoIdle

Init ==
    /\ InitDirect \/ InitLoad
    /\ InitLocals
    /\ NormIdle
    /\ ColorIdle
    /\ HooksIdle

Next ==
    \/ MapNormalize
    \/ ForEachFeature
    \/ PointFirst
    \/ PointCrossing
    \/ PointAppend
    \/ EndFeature
    \/ Return
    \/ SetPlatesData
    \/ Finally

Spec == Init /\ [][Next]_vars

\* loadData and processPlatesData are not running
PipeIdle ==
    /\ caller = "none"
    /\ pc = "idle"
    /\ platesJson = <<>>
    /\ arrays = <<>>
    /\ features = <<>>
    /\ InitLocals

----------------------------------------------------------------------------
(* The same calls on a list that may hold one malformed feature: a feature *)
(* without geometry.coordinates, or with a null among its points.          *)

InitDirectMalformed ==
    /\ caller = "direct"
    /\ pc = "forEachFeature"
    /\ platesJson = <<>>
    /\ \E arrs \in InputArrays(Lons \X Lats, MaxBadPoints) :
           \E d \in WithOneDefect(arrs) :
               /\ arrays = d[1]
               /\ features = FeaturesMissing(Len(arrs), d[2])

InitLoadMalformed ==
    /\ caller = "loadData"
    /\ pc = "getInitialData"
    /\ \E arrs \in InputArrays(RawLons \X Lats, MaxBadPoints) :
           \E d \in WithOneDefect(arrs) :
               /\ arrays = d[1]
               /\ platesJson = FeaturesMissing(Len(arrs), d[2])
    /\ features = <<>>

InitMalformed ==
    /\ InitDirectMalformed \/ InitLoadMalformed
    /\ InitLocals
    /\ NormIdle
    /\ ColorIdle
    /\ HooksIdle

NextMalformed ==
    \/ Next
    \/ GetInitialData
    \/ GetInitialDataFails
    \/ FetchPlates
    \/ FetchPlatesFails
    \/ ThrowMap
    \/ ThrowForEach
    \/ ThrowPoint
    \/ CatchError

SpecMalformed == InitMalformed /\ [][NextMalformed]_vars

\* every awaited promise settles and no step is put off for ever
SpecMalformedFair == SpecMalformed /\ WF_vars(NextMalformed)

----------------------------------------------------------------------------
(* normalizeLongitude loop by loop, src/utils/globe.ts:16-21.  A call is   *)
(* followed by further calls, on its own result or on its argument plus    *)
(* 360, and the calls returned are logged in history.                      *)
(*                                                                         *)
(* newLon is a JavaScript number, a double.  On the integers the model     *)
(* draws, += 360 and -= 360 are exact; on a double of magnitude 2^62 or    *)
(* more (1e20, say) 360 is less than half the spacing of the doubles and   *)
(* the sum rounds back to the same value.  HugeLon stands for such a       *)
(* double.                                                                 *)

HugeLon == 1000000

\* x + d as the double addition computes it
JsAdd(x, d) == IF Abs(x) >= HugeLon THEN x ELSE x + d

\* fault variant: while (newLon < -180)
TooLowStrict(x) == x < -180

\* the condition of the first loop: newLon <= -180
TooLow(x) == x <= -180

\* fault variant: while (newLon >= 180)
TooHighInclusive(x) == x >= 180

\* the condition of the second loop: newLon > 180
TooHigh(x) == x > 180

\* the first loop's condition holds: enter its body
NormTestLow ==
    /\ npc = "whileLow"
    /\ TooLow(curLon)
    /\ npc' = "addTurn"
    /\ UNCHANGED <<pipeVars, colorVars, argLon, curLon, history>>

\* fault variant: if (newLon <= -180) newLon += 360, a single pass
NormLoopLowOnce ==
    /\ npc = "addTurn"
    /\ curLon' = JsAdd(curLon, 360)
    /\ npc' = "whileHigh"
    /\ UNCHANGED <<pipeVars, colorVars, argLon, history>>

\* fault variant: while (newLon <= -180) newLon += 180
NormLoopLowBy180 ==
    /\ npc = "addTurn"
    /\ curLon' = JsAdd(curLon, 180)
    /\ npc' = "whileLow"
    /\ UNCHANGED <<pipeVars, colorVars, argLon, history>>

\* newLon += 360, back to the first loop's condition
NormLoopLow ==
    /\ npc = "addTurn"
    /\ curLon' = JsAdd(curLon, 360)
    /\ npc' = "whileLow"
    /\ UNCHANGED <<pipeVars, colorVars, argLon, history>>

\* the first loop ends
NormExitLow ==
    /\ npc = "whileLow"
    /\ ~TooLow(curLon)
    /\ npc' = "whileHigh"
    /\ UNCHANGED <<pipeVars, colorVars, argLon, curLon, history>>

\* the second loop's condition holds: enter its body
NormTestHigh ==
    /\ npc = "whileHigh"
    /\ TooHigh(curLon)
    /\ npc' = "subTurn"
    /\ UNCHANGED <<pipeVars, colorVars, argLon, curLon, history>>

\* newLon -= 360, back to the second loop's condition
NormLoopHigh ==
    /\ npc = "subTurn"
    /\ curLon' = JsAdd(curLon, -360)
    /\ npc' = "whileHigh"
    /\ UNCHANGED <<pipeVars, colorVars, argLon, history>>

\* the second loop ends: return newLon
NormReturn ==
    /\ npc = "whileHigh"
    /\ ~TooHigh(curLon)
    /\ npc' = "returned"
    /\ history' = Append(history, <<argLon, curLon>>)
    /\ UNCHANGED <<pipeVars, colorVars, argLon, curLon>>

\* the next call: let newLon = lon, with lon the last result or the last
\* argument plus 360
NormCallAgain ==
    /\ npc = "returned"
    /\ Len(history) < MaxCalls
    /\ \E next \in {curLon, JsAdd(argLon, 360)} :
           /\ argLon' = next
           /\ curLon' = next
    /\ npc' = "whileLow"
    /\ UNCHANGED <<pipeVars, colorVars, history>>

InitNorm ==
    /\ argLon \in ((-MaxLon)..MaxLon) \cup {-HugeLon, HugeLon}
    /\ curLon = argLon
    /\ npc = "whileLow"
    /\ history = <<>>
    /\ PipeIdle
    /\ ColorIdle
    /\ HooksIdle

NextNorm ==
    \/ NormTestLow
    \/ NormLoopLow
    \/ NormExitLow
    \/ NormTestHigh
    \/ NormLoopHigh
    \/ NormReturn
    \/ NormCallAgain

SpecNorm == InitNorm /\ [][NextNorm]_vars

\* the function runs on once called: no step of it is put off for ever
SpecNormFair == SpecNorm /\ WF_vars(NextNorm)

----------------------------------------------------------------------------
(* getEarthquakeColorByTime, src/utils/globe.ts:1-13.                      *)
(*                                                                         *)
(* Times are counted in units of three hours since the first day of the    *)
(* model, so that epoch milliseconds fit the integers of the checker; a    *)
(* date string is the number of its day.  t = num / den is kept as the     *)
(* pair of its numerator and denominator and the arithmetic on it is exact.*)

MaxDay == 2
MaxEventOffset == 12

UnitsPerDay == 8

Days == 0..MaxDay
EventTimes == (-MaxEventOffset)..(MaxDay * UnitsPerDay + MaxEventOffset)

\* new Date(date).getTime(): midnight UTC of the day
ParseDate(date) == date * UnitsPerDay

\* fault variant: if (endTime < startTime)
IsDegenerateStrict(startTime, endTime) == endTime < startTime

\* the guard: endTime <= startTime
IsDegenerate(startTime, endTime) == endTime <= startTime

SentinelColor == "rgba(239, 68, 68, 0.75)"

\* fault variant: Math.floor in place of Math.round
MathFloor(n, d) == n \div d

\* Math.round of n / d for d > 0: the nearest integer, halves towards +Infinity
MathRound(n, d) == (2 * n + d) \div (2 * d)

\* fault variant: the anchors exchanged
LerpFromRecent(old, recent, num, den) == recent * den + (old - recent) * num

\* old + (recent - old) * t with t = num / den, as a numerator over den
Lerp(old, recent, num, den) == old * den + (recent - old) * num

\* ${Math.round(old + (recent - old) * t)}; a division by zero gives NaN for
\* 0 / 0 and an infinity otherwise, which Math.round and + pass on
ChannelText(old, recent, num, den) ==
    IF den # 0 THEN ToString(MathRound(Lerp(old, recent, num, den), den))
    ELSE IF num = 0 THEN "NaN"
    ELSE IF (num > 0) = (recent > old) THEN "Infinity"
    ELSE "-Infinity"

\* `rgba(${r}, ${g}, ${b}, 0.75)`
Rgba(r, g, b) == "rgba(" \o r \o ", " \o g \o ", " \o b \o ", 0.75)"

old_r == 220
old_g == 210
old_b == 215
recent_r == 239
recent_g == 68
recent_b == 68

\* if (endTime <= startTime) return 'rgba(239, 68, 68, 0.75)'
ColorDegenerate ==
    /\ cpc = "call"
    /\ IsDegenerate(ParseDate(startDate), ParseDate(endDate))
    /\ color' = SentinelColor
    /\ cpc' = "returned"
    /\ UNCHANGED <<pipeVars, normVars, time, startDate, endDate>>

\* t, r, g, b and the returned template string
ColorInterpolate ==
    /\ cpc = "call"
    /\ ~IsDegenerate(ParseDate(startDate), ParseDate(endDate))
    /\ LET num == time - ParseDate(startDate)
           den == ParseDate(endDate) - ParseDate(startDate)
       IN  color' = Rgba(ChannelText(old_r, recent_r, num, den),
                         ChannelText(old_g, recent_g, num, den),
                         ChannelText(old_b, recent_b, num, den))
    /\ cpc' = "returned"
    /\ UNCHANGED <<pipeVars, normVars, time, startDate, endDate>>

InitColor ==
    /\ time \in EventTimes
    /\ startDate \in Days
    /\ endDate \in Days
    /\ color = ""
    /\ cpc = "call"
    /\ PipeIdle
    /\ NormIdle
    /\ HooksIdle

NextColor ==
    \/ ColorDegenerate
    \/ ColorInterpolate

SpecColor == InitColor /\ [][NextColor]_vars

----------------------------------------------------------------------------
(* DetailsPanel, src/components/DetailsPanel.tsx:6-25, with                *)
(* generateEarthquakeSummary, src/services/geminiService.ts:107-131.       *)
(* A change of selectedItem and the effect it triggers are one step; a     *)
(* settled request and its then-callback are one step.                     *)

\* what generateEarthquakeSummary can resolve to for an earthquake: the text
\* of the model's answer, or one of its two fixed messages
SummaryText(id) == "summary of earthquake " \o ToString(id)
SummaryUnavailable == "AI summaries are unavailable. Please configure the API Key."
SummaryFailed == "Could not generate AI summary for this event."
SummariesFor(id) == {SummaryText(id), SummaryUnavailable, SummaryFailed}

\* requests in flight, all earthquakes together
PendingSummaries == SumTo(summaryRequests, MaxQuakeItems)

\* selectedItem becomes an earthquake: the effect asks for its summary unless
\* prevEarthquakeId.current already is its id
SelectEarthquake ==
    /\ \E item \in QuakeItems :
           /\ selectedItem' = item
           /\ IF prevEarthquakeId # item
              THEN /\ PendingSummaries < MaxPending
                   /\ isLoadingSummary' = TRUE
                   /\ earthquakeSummary' = ""
                   /\ summaryRequests' = [summaryRequests EXCEPT ![item] = @ + 1]
                   /\ prevEarthquakeId' = item
              ELSE UNCHANGED <<isLoadingSummary, earthquakeSummary, summaryRequests,
                               prevEarthquakeId>>
    /\ UNCHANGED <<loadVars, normVars, colorVars, quakeVars, enrichVars, volcanoVars>>

\* selectedItem becomes a volcano or null: prevEarthquakeId.current = null
SelectOther ==
    /\ \E item \in {VolcanoItem, NullItem} : selectedItem' = item
    /\ prevEarthquakeId' = NullItem
    /\ UNCHANGED <<loadVars, normVars, colorVars, quakeVars, enrichVars, volcanoVars,
                   earthquakeSummary, isLoadingSummary, summaryRequests>>

\* a request settles: .then(res => { setEarthquakeSummary(res);
\* setIsLoadingSummary(false) })
SummaryResponse ==
    /\ \E id \in QuakeItems :
           /\ summaryRequests[id] > 0
           /\ summaryRequests' = [summaryRequests EXCEPT ![id] = @ - 1]
           /\ \E res \in SummariesFor(id) : earthquakeSummary' = res
    /\ isLoadingSummary' = FALSE
    /\ UNCHANGED <<loadVars, normVars, colorVars, quakeVars, enrichVars, volcanoVars,
                   selectedItem, prevEarthquakeId>>

InitDetails ==
    /\ DetailsIdle
    /\ QuakesIdle
    /\ EnrichIdle
    /\ VolcanoIdle
    /\ PipeIdle
    /\ NormIdle
    /\ ColorIdle

NextDetails ==
    \/ SelectEarthquake
    \/ SelectOther
    \/ SummaryResponse

SpecDetails == InitDetails /\ [][NextDetails]_vars

----------------------------------------------------------------------------
(* Earthquake updates: useData.handleEarthquakesUpdates,                   *)
(* src/unnamed/part_001:89-98, called by the filters effect of             *)
(* ControlPanel, src/components/DetailsPanel.tsx:99, and updateEarthquakes *)
(* / getEarthquakes / fetchEarthquakesFromApi, DetailsPanel.tsx:217-301.   *)
(* From localStorage.setItem to setEarthquakes a settled request runs on   *)
(* promise continuations only, so it is one step.                          *)

\* seq without its element i
Without(seq, i) == SubSeq(seq, 1, i - 1) \o SubSeq(seq, i + 1, Len(seq))

\* a filter input changes: setFilters, then the effect on [filters] calls
\* handleEarthquakesUpdates, which starts a request in the earthquakes view
SetFilters ==
    /\ viewMode = "earthquakes"
    /\ Len(updateRequests) < MaxInFlight
    /\ \E f \in AllFilters :
           /\ f # filters
           /\ \/ f.dateRange = filters.dateRange
              \/ (f.magRange = filters.magRange /\ f.dateRange.start = filters.dateRange.start)
              \/ (f.magRange = filters.magRange /\ f.dateRange.end = filters.dateRange.end)
           /\ filters' = f
           /\ updateRequests' = IF viewMode = "earthquakes"
                                THEN Append(updateRequests, f)
                                ELSE updateRequests
    /\ UNCHANGED <<loadVars, normVars, colorVars, detailsVars, enrichVars, volcanoVars,
                   viewMode, earthquakes, earthquakeCache>>

\* one of the two view buttons: setViewMode
SetViewMode ==
    /\ \E mode \in {"earthquakes", "volcanoes"} :
           /\ mode # viewMode
           /\ viewMode' = mode
    /\ UNCHANGED <<loadVars, normVars, colorVars, detailsVars, enrichVars, volcanoVars,
                   filters, earthquakes, earthquakeCache, updateRequests>>

\* a request is answered: getEarthquakes caches the result and
\* handleEarthquakesUpdates resumes with setEarthquakes(filteredEarthquakes)
UpdateResponse ==
    /\ \E i \in 1..Len(updateRequests) :
           /\ earthquakeCache' = FetchEarthquakes(updateRequests[i])
           /\ earthquakes' = FetchEarthquakes(updateRequests[i])
           /\ updateRequests' = Without(updateRequests, i)
    /\ UNCHANGED <<loadVars, normVars, colorVars, detailsVars, enrichVars, volcanoVars,
                   filters, viewMode>>

\* ControlPanel has just been mounted after the initial load: the effect on
\* [filters] has made its first call
InitQuakes ==
    /\ filters = InitialFilters
    /\ viewMode = "earthquakes"
    /\ earthquakes = FetchEarthquakes(InitialFilters)
    /\ earthquakeCache = FetchEarthquakes(InitialFilters)
    /\ updateRequests = <<InitialFilters>>
    /\ DetailsIdle
    /\ EnrichIdle
    /\ VolcanoIdle
    /\ PipeIdle
    /\ NormIdle
    /\ ColorIdle

NextQuakes ==
    \/ SetFilters
    \/ SetViewMode
    \/ UpdateResponse

SpecQuakes == InitQuakes /\ [][NextQuakes]_vars

----------------------------------------------------------------------------
(* enrichVolcanoData, src/services/geminiService.ts:12-104.  An id is the  *)
(* tuple of the parts its template string is made of.                      *)

BATCH_SIZE == 50

Min(a, b) == IF a < b THEN a ELSE b

\* the raw volcanoes 1..n: a name of its own each, every second one written
\* in capitals
RawList(n) == [j \in 1..n |-> RawVolcano(VolcanoName(j, j % 2 = 0), j, -j)]

\* the map of the branch without API key, lines 15-22
RawFallback(raws) ==
    [j \in 1..Len(raws) |->
        VolcanoFrom(raws[j], <<"v_raw", j - 1>>, 0, "Unknown", "Inactive",
                    "AI enrichment is disabled. Please set the API Key.")]

\* rawVolcanoes.slice(i, i + BATCH_SIZE)
BatchAt(raws, i) == SubSeq(raws, i + 1, Min(i + BATCH_SIZE, Len(raws)))

\* the status strings the model answers with; the last is no VolcanoStatus
ReplyStatuses == <<"Active", "Potentially Active", "Erupting">>

\* a parsed response of n items, the statuses taken in turn from shift on
DetailsOf(n, shift) ==
    [j \in 1..n |-> [type |-> "Caldera",
                     status |-> ReplyStatuses[((j + shift) % Len(ReplyStatuses)) + 1],
                     elevation |-> 100 + j,
                     information |-> "fact"]]

\* the parsed responses with the right number of items
MatchingDetails(n) == {DetailsOf(n, shift) : shift \in 0..(Len(ReplyStatuses) - 1)}

\* the parsed responses with one item too many or too few
MismatchedDetails(n) == {DetailsOf(n + 1, 0)} \cup (IF n > 0 THEN {DetailsOf(n - 1, 0)} ELSE {})

\* what makes a pass end in the catch block: the request is rejected, the
\* text is no JSON, or the number of items is wrong
FailingReplies(n) ==
    {[kind |-> "rejected", details |-> <<>>], [kind |-> "no JSON", details |-> <<>>]}
        \cup {[kind |-> "items", details |-> d] : d \in MismatchedDetails(n)}

\* fault variant: the status of the response taken as it is
StatusUnchecked(status) == status

\* Object.values(VolcanoStatus).includes(status) ? status : VolcanoStatus.Inactive
StatusOrInactive(status) == IF status \in VolcanoStatus THEN status ELSE "Inactive"

\* the map of lines 76-85 over the batch starting at i
EnrichedBatch(batch, i, details) ==
    [j \in 1..Len(batch) |->
        VolcanoFrom(batch[j], <<"v", i + j - 1, batch[j].name>>, details[j].elevation,
                    details[j].type, StatusOrInactive(details[j].status),
                    details[j].information)]

\* the map of lines 91-98 over the batch starting at i
FallbackBatch(batch, i) ==
    [j \in 1..Len(batch) |->
        VolcanoFrom(batch[j], <<"v_fallback", i + j - 1>>, 0, "Enrichment Failed",
                    "Inactive", "Could not retrieve details for this volcano.")]

\* if (!API_KEY) return rawVolcanoes.map(...)
EnrichNoKey ==
    /\ epc = "call"
    /\ ~apiKey
    /\ allEnrichedVolcanoes' = RawFallback(rawVolcanoes)
    /\ epc' = "returned"
    /\ UNCHANGED <<loadVars, normVars, colorVars, detailsVars, quakeVars, volcanoVars,
                   rawVolcanoes, apiKey, batchStart>>

\* const allEnrichedVolcanoes = []; for (let i = 0; ...
EnrichStart ==
    /\ epc = "call"
    /\ apiKey
    /\ allEnrichedVolcanoes' = <<>>
    /\ batchStart' = 0
    /\ epc' = "loop"
    /\ UNCHANGED <<loadVars, normVars, colorVars, detailsVars, quakeVars, volcanoVars,
                   rawVolcanoes, apiKey>>

\* one pass of the loop whose response has batch.length items
EnrichBatch ==
    /\ epc = "loop"
    /\ batchStart < Len(rawVolcanoes)
    /\ LET batch == BatchAt(rawVolcanoes, batchStart)
       IN  \E details \in MatchingDetails(Len(batch)) :
               allEnrichedVolcanoes' =
                   allEnrichedVolcanoes \o EnrichedBatch(batch, batchStart, details)
    /\ batchStart' = batchStart + BATCH_SIZE
    /\ UNCHANGED <<loadVars, normVars, colorVars, detailsVars, quakeVars, volcanoVars,
                   rawVolcanoes, apiKey, epc>>

\* one pass of the loop that ends in the catch block: the request fails, the
\* text is no JSON, or the number of items is wrong
EnrichBatchFails ==
    /\ epc = "loop"
    /\ batchStart < Len(rawVolcanoes)
    /\ LET batch == BatchAt(rawVolcanoes, batchStart)
       IN  \E reply \in FailingReplies(Len(batch)) :
               allEnrichedVolcanoes' =
                   allEnrichedVolcanoes \o FallbackBatch(batch, batchStart)
    /\ batchStart' = batchStart + BATCH_SIZE
    /\ UNCHANGED <<loadVars, normVars, colorVars, detailsVars, quakeVars, volcanoVars,
                   rawVolcanoes, apiKey, epc>>

\* the loop ends: return allEnrichedVolcanoes
EnrichReturn ==
    /\ epc = "loop"
    /\ batchStart >= Len(rawVolcanoes)
    /\ epc' = "returned"
    /\ UNCHANGED <<loadVars, normVars, colorVars, detailsVars, quakeVars, volcanoVars,
                   rawVolcanoes, apiKey, batchStart, allEnrichedVolcanoes>>

InitEnrich ==
    /\ \E n \in 0..MaxRaw : rawVolcanoes = RawList(n)
    /\ apiKey \in BOOLEAN
    /\ batchStart = 0
    /\ allEnrichedVolcanoes = <<>>
    /\ epc = "call"
    /\ DetailsIdle
    /\ QuakesIdle
    /\ VolcanoIdle
    /\ PipeIdle
    /\ NormIdle
    /\ ColorIdle

NextEnrich ==
    \/ EnrichNoKey
    \/ EnrichStart
    \/ EnrichBatch
    \/ EnrichBatchFails
    \/ EnrichReturn

SpecEnrich == InitEnrich /\ [][NextEnrich]_vars

----------------------------------------------------------------------------
(* Volcano updates: useData.handleUpdateVolcanoes,                         *)
(* src/unnamed/part_001:66-87, and dataService.updateVolcanoes,            *)
(* src/components/DetailsPanel.tsx:304-351.  The button is disabled while  *)
(* isUpdatingVolcanoes is true, so one update runs at a time.              *)

MAX_TO_ADD == 50

\* the answer of the USGS API: n records, each with a name of its own in
\* capitals; in a mixed answer every third record lacks an observed eruption
\* and every fifth has an empty name
UsgsList(n, pattern) ==
    [j \in 1..n |->
        [volcanoName |-> VolcanoName(IF pattern = "mixed" /\ j % 5 = 0 THEN 0 ELSE j, TRUE),
         evidenceCategory |->
             IF pattern = "none" \/ (pattern = "mixed" /\ j % 3 = 0)
             THEN "Eruption Dated" ELSE "Eruption Observed",
         latitude |-> j,
         longitude |-> -j]]

UsgsPatterns == {"observed", "mixed", "none"}

\* the current list: volcanoes 1..k, their names in small letters
CurrentList(k) ==
    [j \in 1..k |->
        VolcanoFrom(RawVolcano(VolcanoName(j, FALSE), j, -j), <<"static", j>>, 1000,
                    "Stratovolcano", "Active", "curated")]

\* v.volcanoName && ...: the empty name is falsy
Truthy(name) == name.base # 0

\* new Set(currentVolcanoes.map(v => v.name.toLowerCase()))
CurrentNames(current) == {ToLowerCase(current[j].name) : j \in 1..Len(current)}

\* the filter and the map of lines 312-318
NewRawVolcanoes(usgs, current) ==
    LET Qualifies(v) ==
            /\ Truthy(v.volcanoName)
            /\ ToLowerCase(v.volcanoName) \notin CurrentNames(current)
            /\ v.evidenceCategory = "Eruption Observed"
        kept == SelectSeq(usgs, Qualifies)
    IN  [j \in 1..Len(kept) |->
            RawVolcano(kept[j].volcanoName, kept[j].latitude, kept[j].longitude)]

\* fault variant: every new raw volcano is enriched
ToEnrichAll(newRaw) == newRaw

\* newRawVolcanoes.slice(0, MAX_TO_ADD)
ToEnrich(newRaw) == SubSeq(newRaw, 1, Min(MAX_TO_ADD, Len(newRaw)))

\* what enrichVolcanoData can return for at most BATCH_SIZE raw volcanoes
EnrichResults(raws) ==
    IF ~apiKey THEN {RawFallback(raws)}
    ELSE {EnrichedBatch(raws, 0, details) : details \in MatchingDetails(Len(raws))}
             \cup {FallbackBatch(raws, 0)}

\* handleUpdateVolcanoes starts: setIsUpdatingVolcanoes(true), the USGS request
UpdateStart ==
    /\ upc = "idle"
    /\ now < MaxClock
    /\ isUpdatingVolcanoes' = TRUE
    /\ upc' = "fetching"
    /\ UNCHANGED <<loadVars, normVars, colorVars, detailsVars, quakeVars, enrichVars,
                   volcanoes, volcanoesLastUpdated, volcanoCache, usgsVolcanoes,
                   updateResult, now>>

\* fetch rejects, the response is not ok, or response.json() rejects
UsgsFails ==
    /\ upc = "fetching"
    /\ upc' = "catch"
    /\ UNCHANGED <<loadVars, normVars, colorVars, detailsVars, quakeVars, enrichVars,
                   volcanoes, isUpdatingVolcanoes, volcanoesLastUpdated, volcanoCache,
                   usgsVolcanoes, updateResult, now>>

\* newRawVolcanoes.length === 0: the timestamp of the cache, if there is
\* one, is refreshed and the current list returned
NothingNew ==
    /\ upc = "fetching"
    /\ NewRawVolcanoes(usgsVolcanoes, volcanoes) = <<>>
    /\ IF volcanoCache.present
       THEN /\ volcanoCache' = [volcanoCache EXCEPT !.timestamp = now]
            /\ now' = now + 1
       ELSE UNCHANGED <<volcanoCache, now>>
    /\ updateResult' = [updatedVolcanoes |-> volcanoes, newVolcanoes |-> <<>>]
    /\ upc' = "handle"
    /\ UNCHANGED <<loadVars, normVars, colorVars, detailsVars, quakeVars, enrichVars,
                   volcanoes, isUpdatingVolcanoes, volcanoesLastUpdated, usgsVolcanoes>>

\* the first MAX_TO_ADD new volcanoes are enriched, appended and cached
NewVolcanoes ==
    /\ upc = "fetching"
    /\ NewRawVolcanoes(usgsVolcanoes, volcanoes) # <<>>
    /\ \E enriched \in EnrichResults(ToEnrich(NewRawVolcanoes(usgsVolcanoes, volcanoes))) :
           IF Len(enriched) = 0
           THEN /\ updateResult' = [updatedVolcanoes |-> volcanoes, newVolcanoes |-> <<>>]
                /\ UNCHANGED <<volcanoCache, now>>
           ELSE /\ updateResult' = [updatedVolcanoes |-> volcanoes \o enriched,
                                    newVolcanoes |-> enriched]
                /\ volcanoCache' = CacheOf(volcanoes \o enriched, now)
                /\ now' = now + 1
    /\ upc' = "handle"
    /\ UNCHANGED <<loadVars, normVars, colorVars, detailsVars, quakeVars, enrichVars,
                   volcanoes, isUpdatingVolcanoes, volcanoesLastUpdated, usgsVolcanoes>>

\* const cache = JSON.parse(localStorage.getItem('volcanoDataCache')!);
\* setVolcanoesLastUpdated(cache.timestamp): a TypeError without a cache
ReadCacheTimestamp ==
    IF volcanoCache.present
    THEN /\ volcanoesLastUpdated' = volcanoCache.timestamp
         /\ upc' = "finally"
    ELSE /\ UNCHANGED volcanoesLastUpdated
         /\ upc' = "catch"

\* newVolcanoes.length > 0: setVolcanoes(updatedVolcanoes), alert
HandleAdded ==
    /\ upc = "handle"
    /\ Len(updateResult.newVolcanoes) > 0
    /\ volcanoes' = updateResult.updatedVolcanoes
    /\ ReadCacheTimestamp
    /\ UNCHANGED <<loadVars, normVars, colorVars, detailsVars, quakeVars, enrichVars,
                   isUpdatingVolcanoes, volcanoCache, usgsVolcanoes, updateResult, now>>

\* else: alert that the list is up to date
HandleUpToDate ==
    /\ upc = "handle"
    /\ Len(updateResult.newVolcanoes) = 0
    /\ ReadCacheTimestamp
    /\ UNCHANGED <<loadVars, normVars, colorVars, detailsVars, quakeVars, enrichVars,
                   volcanoes, isUpdatingVolcanoes, volcanoCache, usgsVolcanoes,
                   updateResult, now>>

\* fault variant: a catch block that returns, in a function without finally
UpdateCatchReturns ==
    /\ upc = "catch"
    /\ upc' = "idle"
    /\ UNCHANGED <<loadVars, normVars, colorVars, detailsVars, quakeVars, enrichVars,
                   volcanoes, isUpdatingVolcanoes, volcanoesLastUpdated, volcanoCache,
                   usgsVolcanoes, updateResult, now>>

\* catch (error) { console.error(...); alert(...) }
UpdateCatch ==
    /\ upc = "catch"
    /\ upc' = "finally"
    /\ UNCHANGED <<loadVars, normVars, colorVars, detailsVars, quakeVars, enrichVars,
                   volcanoes, isUpdatingVolcanoes, volcanoesLastUpdated, volcanoCache,
                   usgsVolcanoes, updateResult, now>>

\* finally { setIsUpdatingVolcanoes(false) }
UpdateFinally ==
    /\ upc = "finally"
    /\ isUpdatingVolcanoes' = FALSE
    /\ upc' = "idle"
    /\ UNCHANGED <<loadVars, normVars, colorVars, detailsVars, quakeVars, enrichVars,
                   volcanoes, volcanoesLastUpdated, volcanoCache, usgsVolcanoes,
                   updateResult, now>>

\* the application after the initial load, with or without its volcano cache
InitVolcano ==
    /\ \E k \in 0..MaxCurrent : volcanoes = CurrentList(k)
    /\ \E n \in 0..MaxUsgs : \E pattern \in UsgsPatterns :
           usgsVolcanoes = UsgsList(n, pattern)
    /\ volcanoCache \in {NoCache, CacheOf(volcanoes, 0)}
    /\ apiKey \in BOOLEAN
    /\ isUpdatingVolcanoes = FALSE
    /\ volcanoesLastUpdated = 0
    /\ updateResult = NoUpdateResult
    /\ now = 1
    /\ upc = "idle"
    /\ rawVolcanoes = <<>>
    /\ batchStart = 0
    /\ allEnrichedVolcanoes = <<>>
    /\ epc = "idle"
    /\ DetailsIdle
    /\ QuakesIdle
    /\ PipeIdle
    /\ NormIdle
    /\ ColorIdle

NextVolcano ==
    \/ UpdateStart
    \/ UsgsFails
    \/ NothingNew
    \/ NewVolcanoes
    \/ HandleAdded
    \/ HandleUpToDate
    \/ UpdateCatch
    \/ UpdateFinally

SpecVolcano == InitVolcano /\ [][NextVolcano]_vars

\* every awaited promise settles and no step is put off for ever
SpecVolcanoFair == SpecVolcano /\ WF_vars(NextVolcano)

----------------------------------------------------------------------------
(* Vocabulary of the properties.                                           *)

\* processPlatesData has returned; finalFeatures is its result
Returned == pc \in {"returned", "setPlatesData", "finally", "done"}

\* the coordinate sequence of input feature k
InputCoords(k) == Coords(features[k])

\* points i and i+1 of a differ by more than 180 in the component c
DiffersOver180(a, i, c) == Abs(a[i][c] - a[i + 1][c]) > 180

\* the features emitted for input feature k, in output order
SegmentsOf(k) ==
    LET FromK(f) == f.properties = features[k].properties
    IN  SelectSeq(finalFeatures, FromK)

\* their coordinate sequences
SegCoords(k) == [s \in 1..Len(SegmentsOf(k)) |-> Coords(SegmentsOf(k)[s])]

\* points p, q are neighbours in one of the segments emitted for feature k
AdjacentInSegment(k, p, q) ==
    \E s \in 1..Len(SegCoords(k)) : \E j \in 1..(Len(SegCoords(k)[s]) - 1) :
        SegCoords(k)[s][j] = p /\ SegCoords(k)[s][j + 1] = q

\* the first components of a coordinate sequence
FirstComponents(a) == [i \in 1..Len(a) |-> a[i][1]]

----------------------------------------------------------------------------
(* C1: after loadData, no feature stored in platesData has two adjacent    *)
(* points whose longitudes differ by more than 180.  The stored points are *)
(* [lat, lon], so the longitude is the second component.                   *)
C1_PlatesDataSplitAtAntimeridian ==
    (caller = "loadData" /\ pc = "done") =>
        \A k \in 1..Len(platesData) :
            \A i \in 1..(Len(Coords(platesData[k])) - 1) :
                ~DiffersOver180(Coords(platesData[k]), i, 2)

(* C2: processPlatesData never emits a feature whose coordinate sequence   *)
(* has fewer than 2 points, at any moment of the walk and in the result.   *)
C2_NoShortSegment ==
    /\ \A k \in 1..Len(finalFeatures) : Len(Coords(finalFeatures[k])) >= 2
    /\ \A k \in 1..Len(platesData) : Len(Coords(platesData[k])) >= 2

\* a 4-point feature whose last point is cut off alone: 3 points emitted, 1 dropped
C2_Witness ==
    /\ pc = "returned"
    /\ Len(features) = 1
    /\ Len(InputCoords(1)) = 4
    /\ ~DiffersOver180(InputCoords(1), 1, 1)
    /\ ~DiffersOver180(InputCoords(1), 2, 1)
    /\ DiffersOver180(InputCoords(1), 3, 1)
    /\ Len(finalFeatures) = 1

(* C3: no two consecutive points of an emitted feature have first          *)
(* components differing by more than 180, and right after a pair of the    *)
(* input that does, the current segment is a new one holding only the      *)
(* later point.                                                            *)
C3_SegmentsSplitAtCrossings ==
    /\ \A k \in 1..Len(finalFeatures) :
           \A i \in 1..(Len(Coords(finalFeatures[k])) - 1) :
               ~DiffersOver180(Coords(finalFeatures[k]), i, 1)
    /\ (pc = "forEachPoint" /\ index >= 2
            /\ DiffersOver180(arrays[coordinates], index - 1, 1)) =>
           /\ arrays[currentSegment] = <<arrays[coordinates][index]>>
           /\ currentSegment # coordinates
           /\ \A k \in 1..Len(finalFeatures) :
                  finalFeatures[k].geometry.coordinates # currentSegment

\* the walk has just passed a crossing that closed and emitted a segment
C3_Witness ==
    /\ pc = "forEachPoint"
    /\ index = 3
    /\ DiffersOver180(arrays[coordinates], 2, 1)
    /\ Len(finalFeatures) >= 1
    /\ finalFeatures[Len(finalFeatures)].properties = features[fi].properties

(* C4 as stated: a feature with no crossings yields exactly one segment,   *)
(* whose points equal the input points in order.                           *)
C4_NoCrossingOneSegment ==
    Returned =>
        \A k \in 1..Len(features) :
            (\A i \in 1..(Len(InputCoords(k)) - 1) : ~DiffersOver180(InputCoords(k), i, 1))
                => SegCoords(k) = <<InputCoords(k)>>

(* C4 amended: a feature with at least 2 points and no crossings yields    *)
(* exactly one segment, whose points equal the input points in order.      *)
C4_NoCrossingOneSegmentFrom2Points ==
    Returned =>
        \A k \in 1..Len(features) :
            (/\ Len(InputCoords(k)) >= 2
             /\ \A i \in 1..(Len(InputCoords(k)) - 1) : ~DiffersOver180(InputCoords(k), i, 1))
                => SegCoords(k) = <<InputCoords(k)>>

\* a 3-point feature without crossings came back as one segment
C4_Witness ==
    /\ pc = "returned"
    /\ \E k \in 1..Len(features) :
           /\ Len(InputCoords(k)) = 3
           /\ \A i \in 1..2 : ~DiffersOver180(InputCoords(k), i, 1)
           /\ Len(SegmentsOf(k)) = 1

(* C5: a feature with 0 points or 1 point contributes no segment, and an   *)
(* empty list of features yields an empty output list.                     *)
C5_DegenerateFeaturesDropped ==
    Returned =>
        /\ \A k \in 1..Len(features) :
               Len(InputCoords(k)) <= 1 => Len(SegmentsOf(k)) = 0
        /\ Len(features) = 0 => finalFeatures = <<>>

\* a list holding an empty feature and a one-point feature has been processed
C5_Witness ==
    /\ pc = "returned"
    /\ Len(features) = 2
    /\ Len(InputCoords(1)) = 0
    /\ Len(InputCoords(2)) = 1

(* C6: a feature of exactly 2 points whose longitudes differ by more than  *)
(* 180 yields no segment.                                                  *)
C6_TwoPointCrossingDropped ==
    Returned =>
        \A k \in 1..Len(features) :
            (Len(InputCoords(k)) = 2 /\ DiffersOver180(InputCoords(k), 1, 1))
                => Len(SegmentsOf(k)) = 0

\* the feature [(179,0),(-179,0)] has been processed
C6_Witness ==
    /\ pc = "returned"
    /\ \E k \in 1..Len(features) : InputCoords(k) = <<(<<179, 0>>), (<<-179, 0>>)>>

(* C7: a feature of n >= 3 points in which only the first consecutive pair *)
(* differs by more than 180 yields exactly one segment, points 2..n.       *)
C7_FirstPairCrossing ==
    Returned =>
        \A k \in 1..Len(features) :
            LET n == Len(InputCoords(k)) IN
            (/\ n >= 3
             /\ DiffersOver180(InputCoords(k), 1, 1)
             /\ \A i \in 2..(n - 1) : ~DiffersOver180(InputCoords(k), i, 1))
                => SegCoords(k) = <<SubSeq(InputCoords(k), 2, n)>>

\* a 3-point feature crossing between its first two points has been processed
C7_Witness ==
    /\ pc = "returned"
    /\ \E k \in 1..Len(features) :
           /\ Len(InputCoords(k)) = 3
           /\ DiffersOver180(InputCoords(k), 1, 1)
           /\ ~DiffersOver180(InputCoords(k), 2, 1)
           /\ Len(SegmentsOf(k)) = 1

(* C8: the crossing test is strict and looks at the magnitude only: two    *)
(* consecutive points differing by at most 180 (exactly 180 included) are  *)
(* neighbours in one emitted segment, and two differing by more than 180,  *)
(* in either direction, are neighbours in none.                            *)
C8_StrictThreshold ==
    Returned =>
        \A k \in 1..Len(features) : \A i \in 1..(Len(InputCoords(k)) - 1) :
            LET p == InputCoords(k)[i]
                q == InputCoords(k)[i + 1]
            IN  /\ (Abs(p[1] - q[1]) <= 180) => AdjacentInSegment(k, p, q)
                /\ (p[1] - q[1] > 180 \/ q[1] - p[1] > 180) => ~AdjacentInSegment(k, p, q)

\* differences of +180, -181 and +181 in a row: only the first pair stays together
C8_Witness ==
    /\ pc = "returned"
    /\ \E k \in 1..Len(features) :
           /\ FirstComponents(InputCoords(k)) = <<1, -179, 2, -179>>
           /\ Len(SegmentsOf(k)) = 1

(* C9: the coordinate sequence of every emitted feature is a contiguous    *)
(* sub-run (points i..j in original order) of the coordinate sequence of   *)
(* exactly one input feature, the one whose metadata it carries.           *)
C9_ContiguousSubRun ==
    \A e \in 1..Len(finalFeatures) :
        /\ Cardinality({k \in 1..Len(features) :
                           features[k].properties = finalFeatures[e].properties}) = 1
        /\ \A k \in 1..Len(features) :
               features[k].properties = finalFeatures[e].properties =>
                   \E i \in 1..Len(InputCoords(k)) : \E j \in i..Len(InputCoords(k)) :
                       Coords(finalFeatures[e]) = SubSeq(InputCoords(k), i, j)

\* one feature of 4 distinct points came back as two segments
C9_Witness ==
    /\ pc = "returned"
    /\ Len(features) = 1
    /\ Cardinality({InputCoords(1)[i] : i \in 1..Len(InputCoords(1))}) = 4
    /\ Len(finalFeatures) = 2

\* a step taken inside processPlatesData leaves its input as it was
InputUntouched ==
    pc \in {"forEachFeature", "forEachPoint"} =>
        /\ features' = features
        /\ \A k \in 1..Len(features) :
               arrays'[features[k].geometry.coordinates] = InputCoords(k)

(* C10: processPlatesData does not mutate its input: no step of the walk   *)
(* changes an input feature, its geometry or its coordinates array.        *)
C10_InputNotMutated ==
    [][InputUntouched]_vars

\* a call that emitted and dropped segments has returned
C10_Witness ==
    /\ pc = "returned"
    /\ Len(features) = 2
    /\ Len(finalFeatures) = 1
    /\ \E k \in 1..2 :
           /\ Len(InputCoords(k)) = 3
           /\ DiffersOver180(InputCoords(k), 2, 1)
           /\ Len(SegmentsOf(k)) = 1

\* a step that pushes onto finalFeatures pushes one new object: a copy of the
\* feature being walked with only the coordinates reference replaced, by a
\* reference that is no input feature's array
EmitsCopyOfWalkedFeature ==
    (pc = "forEachPoint" /\ finalFeatures' # finalFeatures) =>
        LET e == finalFeatures'[Len(finalFeatures')]
        IN  /\ finalFeatures' = Append(finalFeatures, e)
            /\ e.type = features[fi].type
            /\ e.properties = features[fi].properties
            /\ e.geometry.type = features[fi].geometry.type
            /\ e.geometry.coordinates = currentSegment
            /\ \A k \in 1..Len(features) :
                   e.geometry.coordinates # features[k].geometry.coordinates

(* C11: every segment emitted for an input feature carries that feature's  *)
(* metadata unchanged (top-level fields other than geometry, geometry      *)
(* fields other than coordinates) and its coordinates array is a new       *)
(* array, distinct from the input feature's coordinates array.             *)
C11_MetadataCopied ==
    [][EmitsCopyOfWalkedFeature]_vars

\* two differently named features have each produced a segment
C11_Witness ==
    /\ pc = "returned"
    /\ Len(features) = 2
    /\ Len(finalFeatures) = 2
    /\ finalFeatures[1].properties = features[1].properties
    /\ finalFeatures[2].properties = features[2].properties
    /\ finalFeatures[1].properties # finalFeatures[2].properties

\* the call is over, normally or by an exception
CallOver == pc \in {"returned", "thrown", "done"}

\* what the caller got: the returned list, platesData after loadData, or
\* nothing when the call threw
Result ==
    IF caller = "direct" /\ pc = "returned" THEN finalFeatures
    ELSE IF caller = "loadData" /\ pc = "done" THEN platesData
    ELSE <<>>

\* the list handed in: features for a direct call, platesJson.features for loadData
Given == IF caller = "direct" THEN features ELSE platesJson

(* C12: features are processed independently: when one feature of the list *)
(* is malformed, the segments of the well-formed features are still        *)
(* returned.  Stated for well-formed features that start with two points   *)
(* less than 180 apart, which must therefore yield a segment.              *)
C12_MalformedFeatureIsolated ==
    CallOver =>
        \A k \in 1..Len(Given) :
            (/\ MapsCleanly(Given[k])
             /\ Len(Coords(Given[k])) >= 2
             /\ Abs(Coords(Given[k])[1][1] - Coords(Given[k])[2][1]) < 180)
                => \E e \in 1..Len(Result) : Result[e].properties = Given[k].properties

\* the loops return what the recursive definition used by loadData returns
NormStepsAgreeWithOperator ==
    \A c \in 1..Len(history) : history[c][2] = normalizeLongitude(history[c][1])

(* C13: for every input longitude, also far outside [-180, 180],           *)
(* normalizeLongitude returns a value r with -180 < r <= 180.              *)
C13_ResultInRange ==
    npc = "returned" => (-180 < curLon /\ curLon <= 180)

\* a call on a longitude more than two turns away has returned
C13_Witness ==
    /\ npc = "returned"
    /\ argLon < -720
    /\ curLon # argLon

(* C14: normalizeLongitude is idempotent: called on one of its own results *)
(* it returns that result.                                                 *)
C14_Idempotent ==
    \A i \in 1..Len(history) : \A j \in 1..Len(history) :
        history[j][1] = history[i][2] => history[j][2] = history[i][2]

\* a result that differs from its argument has been normalized again
C14_Witness ==
    /\ npc = "returned"
    /\ Len(history) = 2
    /\ history[1][2] # history[1][1]
    /\ history[2][1] = history[1][2]

C16_Boundaries ==
    \A c \in 1..Len(history) :
        LET arg == history[c][1]
            res == history[c][2]
        IN  /\ arg = -180 => res = 180
            /\ arg = 180 => res = 180
            /\ arg = 540 => res = 180
            /\ arg = 0 => res = 0
            /\ arg % 360 = 180 => res = 180
            /\ res # -180

\* the call on -540, an odd multiple below the range, has returned
C16_Witness ==
    /\ npc = "returned"
    /\ history = <<(<<-540, 180>>)>>

\* a pass through the body of a loop: the first loop only raises the value,
\* the second only lowers it and never to -180 or below
NormProgress ==
    /\ npc = "addTurn" => (curLon' > curLon /\ npc' = "whileLow")
    /\ npc = "subTurn" => (curLon' < curLon /\ curLon' > -180 /\ npc' = "whileHigh")

\* a call that has not returned
NormRunning == npc \in {"whileLow", "addTurn", "whileHigh", "subTurn"}

(* C17: normalizeLongitude is total: for every finite input the first loop *)
(* only increases the value until it exceeds -180, the second only         *)
(* decreases it until it is at most 180 and never pushes it back to -180   *)
(* or below, and every call returns.                                       *)
C17_Terminates ==
    /\ [][NormProgress]_vars
    /\ NormRunning ~> (npc = "returned")

\* C17 holds of the arguments on which adding 360 is exact
NormTerminatesBelowHuge ==
    /\ [][Abs(argLon) < HugeLon => NormProgress]_vars
    /\ (NormRunning /\ Abs(argLon) < HugeLon) ~> (npc = "returned")

\* the window and the position of the event in it, in the units of the model
StartTime == ParseDate(startDate)
EndTime == ParseDate(endDate)

(* C18: when the window end is not after the window start (equal included) *)
(* getEarthquakeColorByTime returns exactly 'rgba(239, 68, 68, 0.75)' for  *)
(* every event time: nothing is divided by the zero or negative span and   *)
(* no error is raised.                                                     *)
C18_DegenerateWindowSentinel ==
    (cpc = "returned" /\ EndTime <= StartTime) => color = "rgba(239, 68, 68, 0.75)"

\* a call with equal start and end, for an event away from that instant,
\* has returned
C18_Witness ==
    /\ cpc = "returned"
    /\ EndTime = StartTime
    /\ time # StartTime

(* C19: for every window with T1 > T0 the colour of an event at T0 is      *)
(* 'rgba(220, 210, 215, 0.75)' and the colour of an event at T1 is         *)
(* 'rgba(239, 68, 68, 0.75)'.                                              *)
C19_Endpoints ==
    (cpc = "returned" /\ EndTime > StartTime) =>
        /\ time = StartTime => color = "rgba(220, 210, 215, 0.75)"
        /\ time = EndTime => color = "rgba(239, 68, 68, 0.75)"

\* a call for the event at the start of a two-day window has returned
C19_Witness ==
    /\ cpc = "returned"
    /\ EndTime - StartTime = 2 * UnitsPerDay
    /\ time = StartTime

\* the integers a channel can take for the windows and event times drawn
ChannelValues ==
    LET reach == 255 * (MaxDay * UnitsPerDay + 2 * MaxEventOffset + 1)
    IN  (-reach)..reach

\* the integer nearest to old + (recent - old) * (num / den) for den > 0,
\* the upper one of two equally near
NearestHalfUp(old, recent, num, den) ==
    CHOOSE c \in ChannelValues :
        /\ 2 * den * c - den <= 2 * (old * den + (recent - old) * num)
        /\ 2 * (old * den + (recent - old) * num) < 2 * den * c + den

(* C20: for every window with end > start and every event time, inside or  *)
(* outside the window, the result is 'rgba(R, G, B, 0.75)' with each       *)
(* channel round(old + (recent - old) * t), t = (time - start) / (end -    *)
(* start) not clamped, old = (220, 210, 215), recent = (239, 68, 68),      *)
(* halves rounded up; at t = 1/2 it is 'rgba(230, 139, 142, 0.75)'.        *)
C20_InterpolatedChannels ==
    (cpc = "returned" /\ EndTime > StartTime) =>
        LET num == time - StartTime
            den == EndTime - StartTime
        IN  /\ color = "rgba(" \o ToString(NearestHalfUp(220, 239, num, den))
                        \o ", " \o ToString(NearestHalfUp(210, 68, num, den))
                        \o ", " \o ToString(NearestHalfUp(215, 68, num, den))
                        \o ", 0.75)"
            /\ 2 * num = den => color = "rgba(230, 139, 142, 0.75)"

\* a call for an event half a window after the end has returned: t = 3/2,
\* where the blue channel is -5.5 before rounding
C20_Witness ==
    /\ cpc = "returned"
    /\ EndTime > StartTime
    /\ 2 * (time - StartTime) = 3 * (EndTime - StartTime)
    /\ color = "rgba(249, -3, -5, 0.75)"

\* a call for the event in the middle of its window has returned
C20_MidpointReached ==
    /\ cpc = "returned"
    /\ EndTime > StartTime
    /\ 2 * (time - StartTime) = EndTime - StartTime

\* the local r, g or b of a call with end > start: Math.round of the channel
Channel(old, recent) ==
    MathRound(Lerp(old, recent, time - StartTime, EndTime - StartTime),
              EndTime - StartTime)

(* C21: every colour string returned by getEarthquakeColorByTime, for      *)
(* every event time and every window, has each of its R, G and B channels  *)
(* an integer in [0, 255].                                                 *)
C21_ChannelsInByteRange ==
    cpc = "returned" =>
        IF EndTime <= StartTime
        THEN \E r \in 0..255 : color = Rgba(ToString(r), "68", "68")
        ELSE /\ color = Rgba(ToString(Channel(old_r, recent_r)),
                             ToString(Channel(old_g, recent_g)),
                             ToString(Channel(old_b, recent_b)))
             /\ Channel(old_r, recent_r) \in 0..255
             /\ Channel(old_g, recent_g) \in 0..255
             /\ Channel(old_b, recent_b) \in 0..255

\* the callback is about to run for the point with 0-based index >= 1
AtLaterPoint ==
    /\ pc = "forEachPoint"
    /\ index >= 1
    /\ index < Len(arrays[coordinates])

\* such a step starts a new segment exactly when original points index - 1
\* and index (0-based) differ by more than 180 in their first components
CrossingDecidedByNeighbours ==
    AtLaterPoint =>
        ((currentSegment' # currentSegment)
            <=> DiffersOver180(arrays[coordinates], index, 1))

(* C22: the crossing decision for point i (i >= 1) depends only on the     *)
(* longitudes of points i-1 and i of the original coordinate array, also   *)
(* when the segment that held point i-1 was a single point and has just    *)
(* been dropped; never on an earlier point or on what was emitted.         *)
C22_CrossingDecisionLocal == [][CrossingDecidedByNeighbours]_vars

\* 2, -179, 2 walked: the one-point segment [-179] was dropped at the third
\* point, which started a new segment although it equals the first point
C22_Witness ==
    /\ pc = "forEachPoint"
    /\ index = 3
    /\ FirstComponents(SubSeq(arrays[coordinates], 1, 3)) = <<2, -179, 2>>
    /\ arrays[currentSegment] = <<arrays[coordinates][3]>>
    /\ finalFeatures = <<>>

\* a segmenter that compares each point with the last point of the current
\* segment: <<segments emitted, current segment>> after the first n points
RECURSIVE WalkByLastRetained(_, _)
WalkByLastRetained(a, n) ==
    IF n = 0 THEN <<(<<>>), (<<>>)>>
    ELSE LET before == WalkByLastRetained(a, n - 1)
             done == before[1]
             cur == before[2]
         IN  IF cur = <<>> THEN <<done, <<a[n]>> >>
             ELSE IF Abs(cur[Len(cur)][1] - a[n][1]) > 180
                  THEN <<IF Len(cur) > 1 THEN Append(done, cur) ELSE done, <<a[n]>> >>
                  ELSE <<done, Append(cur, a[n])>>

\* what that segmenter emits for a whole coordinate sequence
SegmentsByLastRetained(a) ==
    LET end == WalkByLastRetained(a, Len(a))
    IN  IF Len(end[2]) > 1 THEN Append(end[1], end[2]) ELSE end[1]

(* C23: at every step i >= 1 of the walk the last point of currentSegment  *)
(* is the original point i-1, so a segmenter comparing each point with the *)
(* last point of the current segment gives the output of the code, for     *)
(* every input feature.                                                    *)
C23_LastRetainedIsPrevious ==
    /\ AtLaterPoint =>
           /\ Len(arrays[currentSegment]) >= 1
           /\ arrays[currentSegment][Len(arrays[currentSegment])]
                  = arrays[coordinates][index]
    /\ Returned =>
           \A k \in 1..Len(features) :
               SegCoords(k) = SegmentsByLastRetained(InputCoords(k))

\* a 4-point feature cut in the middle came back as two segments
C23_Witness ==
    /\ pc = "returned"
    /\ Len(features) = 1
    /\ Len(InputCoords(1)) = 4
    /\ DiffersOver180(InputCoords(1), 2, 1)
    /\ Len(finalFeatures) = 2

\* position i of a starts a run: it is the first, or a crossing precedes it
StartsRun(a, i) == i = 1 \/ DiffersOver180(a, i - 1, 1)

\* position j of a ends a run: it is the last, or a crossing follows it
EndsRun(a, j) == j = Len(a) \/ DiffersOver180(a, j, 1)

\* the runs of a: <<i, j>> with no crossing inside and one, or the end of
\* the feature, on both sides
Runs(a) ==
    {r \in (1..Len(a)) \X (1..Len(a)) :
        /\ r[1] <= r[2]
        /\ StartsRun(a, r[1])
        /\ EndsRun(a, r[2])
        /\ \A i \in r[1]..(r[2] - 1) : ~DiffersOver180(a, i, 1)}

\* <<feature, first position, last position>> of every run of two points
\* or more in the input
LongRuns ==
    UNION { {<<k, r[1], r[2]>> : r \in {q \in Runs(InputCoords(k)) : q[1] < q[2]}}
            : k \in 1..Len(features) }

\* run x comes before run y: earlier feature, or same feature and earlier
RunBefore(x, y) == x[1] < y[1] \/ (x[1] = y[1] /\ x[2] < y[2])

(* C24: every input point appears in at most one emitted segment; the      *)
(* segments of a feature come in original order and those of different     *)
(* features in input-feature order; and the points in no segment are       *)
(* exactly those that form a one-point run.                                *)
C24_PointAccounting ==
    Returned =>
        \E place \in [1..Len(finalFeatures) -> LongRuns] :
            /\ \A x \in LongRuns : \E e \in 1..Len(finalFeatures) : place[e] = x
            /\ \A e \in 1..Len(finalFeatures) :
                   /\ finalFeatures[e].properties = features[place[e][1]].properties
                   /\ Coords(finalFeatures[e])
                          = SubSeq(InputCoords(place[e][1]), place[e][2], place[e][3])
            /\ \A d \in 1..Len(finalFeatures) : \A e \in 1..Len(finalFeatures) :
                   d < e => RunBefore(place[d], place[e])

\* one feature of runs 1 | 2 3 | 4: the middle run came back, the two ends did not
C24_Witness ==
    /\ pc = "returned"
    /\ Len(features) = 1
    /\ Len(InputCoords(1)) = 4
    /\ DiffersOver180(InputCoords(1), 1, 1)
    /\ ~DiffersOver180(InputCoords(1), 2, 1)
    /\ DiffersOver180(InputCoords(1), 3, 1)
    /\ SegCoords(1) = <<SubSeq(InputCoords(1), 2, 3)>>

(* C25: whenever an earthquake is selected and isLoadingSummary is false,  *)
(* the displayed earthquakeSummary is the summary generated for the        *)
(* currently selected earthquake, under every interleaving of selections   *)
(* and summary responses.                                                  *)
C25_SummaryOfSelected ==
    (selectedItem \in QuakeItems /\ ~isLoadingSummary) =>
        earthquakeSummary \in SummariesFor(selectedItem)

(* C26: in the earthquakes view, after any sequence of filter changes,     *)
(* once every outstanding updateEarthquakes request has completed the      *)
(* earthquakes state and the cached earthquakes are the result fetched for *)
(* the most recently set filters, whatever the order of the responses.     *)
C26_LatestFiltersWin ==
    (viewMode = "earthquakes" /\ updateRequests = <<>>) =>
        /\ earthquakes = FetchEarthquakes(filters)
        /\ earthquakeCache = FetchEarthquakes(filters)

\* a step of loadData: isLoading is only ever cleared; error is set, to a
\* non-empty message, by the steps that leave the catch block and by no
\* other; platesData is set, to the segmenter's output, by setPlatesData in
\* a run without error and by no other step
LoadDataStep ==
    caller = "loadData" =>
        /\ isLoading' => isLoading
        /\ pc = "catch" => (error' # NoError /\ error' # "")
        /\ error' # error => pc = "catch"
        /\ pc = "setPlatesData" => (platesData' = finalFeatures /\ error = NoError)
        /\ platesData' # platesData => pc = "setPlatesData"

\* loadData is over
LoadDataDone == caller = "loadData" /\ pc = "done"

C29_OnePerRawVolcano ==
    epc = "returned" =>
        /\ Len(allEnrichedVolcanoes) = Len(rawVolcanoes)
        /\ \A j \in 1..Len(rawVolcanoes) :
               /\ allEnrichedVolcanoes[j].name = rawVolcanoes[j].name
               /\ allEnrichedVolcanoes[j].lat = rawVolcanoes[j].lat
               /\ allEnrichedVolcanoes[j].lng = rawVolcanoes[j].lng
               /\ allEnrichedVolcanoes[j].status \in VolcanoStatus
        /\ \A j \in 1..Len(rawVolcanoes) :
               allEnrichedVolcanoes[j].type = "Enrichment Failed" =>
                   \A k \in 1..Len(rawVolcanoes) :
                       (k - 1) \div 50 = (j - 1) \div 50 =>
                           allEnrichedVolcanoes[k].type = "Enrichment Failed"

\* a call on three batches has returned: the first enriched, with an answer
\* naming a status that is no VolcanoStatus, the second fallen back, the
\* third enriched
C29_Witness ==
    /\ epc = "returned"
    /\ apiKey
    /\ Len(rawVolcanoes) = 101
    /\ allEnrichedVolcanoes[1].type = "Caldera"
    /\ allEnrichedVolcanoes[2].status = "Inactive"
    /\ allEnrichedVolcanoes[51].type = "Enrichment Failed"
    /\ allEnrichedVolcanoes[101].type = "Caldera"

\* a step of handleUpdateVolcanoes: it starts by setting the flag, it ends
\* by clearing it, and it writes volcanoes only when handling a result
\* that holds new volcanoes
VolcanoUpdateStep ==
    /\ (upc = "idle" /\ upc' # "idle") => isUpdatingVolcanoes'
    /\ (upc # "idle" /\ upc' = "idle") => ~isUpdatingVolcanoes'
    /\ volcanoes' # volcanoes =>
           (upc = "handle" /\ Len(updateResult.newVolcanoes) > 0)

(* C28: handleUpdateVolcanoes sets isUpdatingVolcanoes to true when it     *)
(* starts and back to false when it finishes, on every path (volcanoes     *)
(* added, none added, the update throwing); when updateVolcanoes fails or  *)
(* returns no new volcanoes the volcanoes state is left unchanged.         *)
C28_UpdatingFlagBracketsUpdate ==
    /\ [][VolcanoUpdateStep]_vars
    /\ [](isUpdatingVolcanoes <=> upc # "idle")
    /\ (upc # "idle") ~> (upc = "idle" /\ ~isUpdatingVolcanoes)

\* an update that added volcanoes has finished
C28_Witness ==
    /\ upc = "idle"
    /\ ~isUpdatingVolcanoes
    /\ Len(updateResult.newVolcanoes) > 0
    /\ volcanoes = updateResult.updatedVolcanoes
    /\ volcanoesLastUpdated = volcanoCache.timestamp

\* USGS record u has an observed eruption and a name that, in small letters,
\* is the name of no volcano of the list cur
QualifiesAgainst(u, cur) ==
    /\ u.evidenceCategory = "Eruption Observed"
    /\ \A c \in 1..Len(cur) : ToLowerCase(cur[c].name) # ToLowerCase(u.volcanoName)

\* the step on which updateVolcanoes returns
UpdateVolcanoesReturns ==
    (upc = "fetching" /\ upc' = "handle") =>
        LET cur == volcanoes
            upd == updateResult'.updatedVolcanoes
            added == SubSeq(upd, Len(cur) + 1, Len(upd))
        IN  /\ Len(upd) >= Len(cur)
            /\ SubSeq(upd, 1, Len(cur)) = cur
            /\ Len(added) <= 50
            /\ updateResult'.newVolcanoes = added
            /\ \A a \in 1..Len(added) :
                   \E u \in 1..Len(usgsVolcanoes) :
                       /\ usgsVolcanoes[u].volcanoName = added[a].name
                       /\ QualifiesAgainst(usgsVolcanoes[u], cur)
            /\ (\A u \in 1..Len(usgsVolcanoes) : ~QualifiesAgainst(usgsVolcanoes[u], cur)) =>
                   /\ upd = cur
                   /\ volcanoCache'.volcanoes = volcanoCache.volcanoes
                   /\ volcanoCache'.present = volcanoCache.present
                   /\ volcanoCache.present => volcanoCache'.timestamp = now

(* C30: updateVolcanoes returns a list that has the current list as an     *)
(* unchanged prefix and appends at most 50 volcanoes per call; every       *)
(* appended volcano comes from a USGS record with evidenceCategory         *)
(* 'Eruption Observed' whose lower-cased name is not the lower-cased name  *)
(* of a current volcano; when no record qualifies the current list is      *)
(* returned unchanged and only the cache timestamp is refreshed.           *)
C30_AppendsNewObserved == [][UpdateVolcanoesReturns]_vars

\* 52 records answered, 51 of them new to a list of one volcano: 50 appended
C30_Witness ==
    /\ upc = "handle"
    /\ Len(usgsVolcanoes) = 52
    /\ Len(volcanoes) = 1
    /\ Len(updateResult.newVolcanoes) = 50
    /\ Len(updateResult.updatedVolcanoes) = 51

====
